---------------------------- MODULE Spec2Model ----------------------------
(* The three example contracts of contracts/examples (Adder, Counter,     *)
(* Empty) as one state machine: each contract owns a storage (a partial   *)
(* map from storage key to value), every endpoint is one transaction.     *)
EXTENDS Integers, Sequences, FiniteSets, TLC

\* ---------------------------------------------------------------- bounds
MaxVal == 5      \* BigUint arguments of Adder::init / Adder::add are 0..MaxVal
MaxSum == 8      \* add is not called once the sum would exceed MaxSum
MaxCalls == 3    \* at most MaxCalls successful increments (decrements) per init

\* ------------------------------------------------------------ u64 values
\* A u64 is kept at its full width of 64 bits, as NumLimbs limbs of 16 bits,
\* least significant limb first.
LimbBase == 65536
NumLimbs == 4

U64Zero == [i \in 1..NumLimbs |-> 0]
U64Max == [i \in 1..NumLimbs |-> LimbBase - 1]

\* the u64 holding the small natural n (n < LimbBase)
U64Of(n) == [i \in 1..NumLimbs |-> IF i = 1 THEN n ELSE 0]

RECURSIVE AddCarry(_, _, _)
AddCarry(c, i, carry) ==
    IF i > NumLimbs THEN [val |-> c, overflow |-> carry # 0]
    ELSE LET t == c[i] + carry
         IN AddCarry([c EXCEPT ![i] = t % LimbBase], i + 1, t \div LimbBase)

RECURSIVE SubBorrow(_, _, _)
SubBorrow(c, i, borrow) ==
    IF i > NumLimbs THEN [val |-> c, overflow |-> borrow # 0]
    ELSE LET t == c[i] - borrow
         IN IF t < 0 THEN SubBorrow([c EXCEPT ![i] = t + LimbBase], i + 1, 1)
                     ELSE SubBorrow([c EXCEPT ![i] = t], i + 1, 0)

\* `*c += 1` and `*c -= 1` on a u64: the 64-bit result and whether the exact
\* result left the range 0 .. 2^64 - 1
u64_add_assign_twice(c, n) == AddCarry(c, 1, n + n)
u64_add_assign(c, n) == AddCarry(c, 1, n)
u64_sub_assign_off_by_one(c, n) == SubBorrow(c, 1, n + 1)
u64_sub_assign(c, n) == SubBorrow(c, 1, n)

\* `*sum += value` on a BigUint: arbitrary precision, never overflows
biguint_add_assign_max(s, v) == IF s > v THEN s ELSE v
biguint_add_assign(s, v) == s + v

\* ---------------------------------------------------------------- storage
\* A contract storage maps the keys that hold a non-empty value to that
\* value.  A SingleValueMapper reads a missing key as the zero of its type
\* and writing that zero leaves the key empty.
EmptyStorage == [k \in {} |-> 0]

MapperGet(storage, key, zero) ==
    IF key \in DOMAIN storage THEN storage[key] ELSE zero

MapperSet(storage, key, value, zero) ==
    IF value = zero
    THEN [k \in (DOMAIN storage) \ {key} |-> storage[k]]
    ELSE [k \in (DOMAIN storage) \cup {key} |->
            IF k = key THEN value ELSE storage[k]]

\* the storage mappers of the two contracts
sum(storage) == MapperGet(storage, "sum", 0)
counter(storage) == MapperGet(storage, "counter", U64Zero)

VARIABLES
    adderStorage,     \* storage of the deployed Adder
    counterStorage,   \* storage of the deployed Counter
    emptyStorage,     \* storage of the deployed Empty
    overflowChecks,   \* whether the build traps on integer overflow
    lastCall,         \* [contract, fn] of the last transaction
    result,           \* "ok" or "fail": outcome of the last transaction
    ret,              \* <<>> or <<v>>: what the last transaction returned
    initialValue,     \* history: argument of the last Adder::init
    added,            \* history: sum of the values added since that init
    nInc,             \* history: successful increments since Counter::init
    nDec,             \* history: successful decrements since Counter::init
    overflowed,       \* history: some call over/underflowed since that init
    counterHist       \* history: last two successful Counter mutations

vars == <<adderStorage, counterStorage, emptyStorage, overflowChecks,
          lastCall, result, ret, initialValue, added, nInc, nDec,
          overflowed, counterHist>>

adderHistory == <<initialValue, added>>
counterHistory == <<nInc, nDec, overflowed, counterHist>>

Call(c, f) == [contract |-> c, fn |-> f]

Push(h, e) == IF Len(h) < 2 THEN Append(h, e) ELSE <<h[2], e>>

\* =================================================================== Adder
Adder_init_ignoring_argument(initial_value) ==
    /\ adderStorage' = MapperSet(adderStorage, "sum", 0, 0)
    /\ lastCall' = Call("Adder", "init")
    /\ result' = "ok"
    /\ ret' = <<>>
    /\ initialValue' = initial_value
    /\ added' = 0
    /\ UNCHANGED <<counterStorage, emptyStorage, overflowChecks, counterHistory>>

Adder_init(initial_value) ==
    /\ adderStorage' = MapperSet(adderStorage, "sum", initial_value, 0)
    /\ lastCall' = Call("Adder", "init")
    /\ result' = "ok"
    /\ ret' = <<>>
    /\ initialValue' = initial_value
    /\ added' = 0
    /\ UNCHANGED <<counterStorage, emptyStorage, overflowChecks, counterHistory>>

Adder_upgrade_reinit ==
    /\ adderStorage' = MapperSet(adderStorage, "sum", initialValue, 0)
    /\ lastCall' = Call("Adder", "upgrade")
    /\ result' = "ok"
    /\ ret' = <<>>
    /\ UNCHANGED <<counterStorage, emptyStorage, overflowChecks,
                   adderHistory, counterHistory>>

Adder_upgrade ==
    /\ lastCall' = Call("Adder", "upgrade")
    /\ result' = "ok"
    /\ ret' = <<>>
    /\ UNCHANGED <<adderStorage, counterStorage, emptyStorage, overflowChecks,
                   adderHistory, counterHistory>>

\* `self.sum().update(|sum| *sum += value)`: the storage after the update
sum_update(storage, value) ==
    MapperSet(storage, "sum", biguint_add_assign(sum(storage), value), 0)

Adder_add(value) ==
    /\ sum(adderStorage) + value <= MaxSum
    /\ adderStorage' = sum_update(adderStorage, value)
    /\ lastCall' = Call("Adder", "add")
    /\ result' = "ok"
    /\ ret' = <<>>
    /\ added' = added + value
    /\ UNCHANGED <<counterStorage, emptyStorage, overflowChecks, initialValue,
                   counterHistory>>

Adder_getSum ==
    /\ lastCall' = Call("Adder", "getSum")
    /\ result' = "ok"
    /\ ret' = <<sum(adderStorage)>>
    /\ UNCHANGED <<adderStorage, counterStorage, emptyStorage, overflowChecks,
                   adderHistory, counterHistory>>

\* ================================================================= Counter
Counter_init_wrong_storage ==
    /\ counterStorage' = MapperSet(counterStorage, "counter", U64Zero, U64Zero)
    /\ adderStorage' = MapperSet(adderStorage, "sum", 0, 0)
    /\ lastCall' = Call("Counter", "init")
    /\ result' = "ok"
    /\ ret' = <<>>
    /\ nInc' = 0
    /\ nDec' = 0
    /\ overflowed' = FALSE
    /\ counterHist' = <<>>
    /\ UNCHANGED <<emptyStorage, overflowChecks, adderHistory>>

Counter_init ==
    /\ counterStorage' = MapperSet(counterStorage, "counter", U64Zero, U64Zero)
    /\ lastCall' = Call("Counter", "init")
    /\ result' = "ok"
    /\ ret' = <<>>
    /\ nInc' = 0
    /\ nDec' = 0
    /\ overflowed' = FALSE
    /\ counterHist' = <<>>
    /\ UNCHANGED <<adderStorage, emptyStorage, overflowChecks, adderHistory>>

Counter_upgrade ==
    /\ lastCall' = Call("Counter", "upgrade")
    /\ result' = "ok"
    /\ ret' = <<>>
    /\ UNCHANGED <<adderStorage, counterStorage, emptyStorage, overflowChecks,
                   adderHistory, counterHistory>>

\* One read-modify-write of the slot "counter" giving the step's outcome r.  An
\* overflowing step panics when the build checks overflow (the transaction
\* fails and writes nothing) and wraps modulo 2^64 when it does not.
CounterUpdate(fn, r) ==
    /\ lastCall' = Call("Counter", fn)
    /\ ret' = <<>>
    /\ overflowed' = (overflowed \/ r.overflow)
    /\ IF r.overflow /\ overflowChecks
       THEN /\ result' = "fail"
            /\ UNCHANGED <<counterStorage, nInc, nDec, counterHist>>
       ELSE /\ result' = "ok"
            /\ counterStorage' = MapperSet(counterStorage, "counter", r.val, U64Zero)
            /\ nInc' = IF fn = "increment" THEN nInc + 1 ELSE nInc
            /\ nDec' = IF fn = "decrement" THEN nDec + 1 ELSE nDec
            /\ counterHist' = Push(counterHist,
                   [fn |-> fn, before |-> counter(counterStorage), after |-> r.val])
    /\ UNCHANGED <<adderStorage, emptyStorage, overflowChecks, adderHistory>>

Counter_increment ==
    /\ nInc < MaxCalls
    /\ CounterUpdate("increment", u64_add_assign(counter(counterStorage), 1))

Counter_decrement ==
    /\ nDec < MaxCalls
    /\ CounterUpdate("decrement", u64_sub_assign(counter(counterStorage), 1))

Counter_get_taking ==
    /\ lastCall' = Call("Counter", "get")
    /\ result' = "ok"
    /\ ret' = <<counter(counterStorage)>>
    /\ counterStorage' = MapperSet(counterStorage, "counter", U64Zero, U64Zero)
    /\ UNCHANGED <<adderStorage, emptyStorage, overflowChecks,
                   adderHistory, counterHistory>>

Counter_get ==
    /\ lastCall' = Call("Counter", "get")
    /\ result' = "ok"
    /\ ret' = <<counter(counterStorage)>>
    /\ UNCHANGED <<adderStorage, counterStorage, emptyStorage, overflowChecks,
                   adderHistory, counterHistory>>

\* =================================================================== Empty
Empty_init ==
    /\ lastCall' = Call("Empty", "init")
    /\ result' = "ok"
    /\ ret' = <<>>
    /\ UNCHANGED <<adderStorage, counterStorage, emptyStorage, overflowChecks,
                   adderHistory, counterHistory>>

Empty_upgrade_writing ==
    /\ emptyStorage' = MapperSet(emptyStorage, "version", 1, 0)
    /\ lastCall' = Call("Empty", "upgrade")
    /\ result' = "ok"
    /\ ret' = <<>>
    /\ UNCHANGED <<adderStorage, counterStorage, overflowChecks,
                   adderHistory, counterHistory>>

Empty_upgrade ==
    /\ lastCall' = Call("Empty", "upgrade")
    /\ result' = "ok"
    /\ ret' = <<>>
    /\ UNCHANGED <<adderStorage, counterStorage, emptyStorage, overflowChecks,
                   adderHistory, counterHistory>>

\* ============================================================ specification
\* The three contracts freshly deployed: Adder::init(v0), Counter::init and
\* Empty::init have run on empty storages, under either build profile.
Init ==
    /\ \E v0 \in 0..MaxVal :
          /\ adderStorage = MapperSet(EmptyStorage, "sum", v0, 0)
          /\ initialValue = v0
    /\ added = 0
    /\ counterStorage = MapperSet(EmptyStorage, "counter", U64Zero, U64Zero)
    /\ emptyStorage = EmptyStorage
    /\ overflowChecks \in BOOLEAN
    /\ lastCall = Call("Empty", "init")
    /\ result = "ok"
    /\ ret = <<>>
    /\ nInc = 0
    /\ nDec = 0
    /\ overflowed = FALSE
    /\ counterHist = <<>>

Next ==
    \/ \E v \in 0..MaxVal : Adder_init(v)
    \/ Adder_upgrade
    \/ \E v \in 0..MaxVal : Adder_add(v)
    \/ Adder_getSum
    \/ Counter_init
    \/ Counter_upgrade
    \/ Counter_increment
    \/ Counter_decrement
    \/ Counter_get
    \/ Empty_init
    \/ Empty_upgrade

Spec == Init /\ [][Next]_vars

\* ================================================================== claims
\* C1: after init(v0) and any sequence add(v1), ..., add(vn), the slot "sum"
\* holds v0 + v1 + ... + vn and the view getSum returns that value; with no
\* add call it is v0.
C1_SumIsInitialPlusAdded ==
    /\ sum(adderStorage) = initialValue + added
    /\ lastCall = Call("Adder", "getSum") => ret = <<initialValue + added>>

\* init(3), add(5), getSum returns 8
C1_Witness ==
    /\ lastCall = Call("Adder", "getSum")
    /\ initialValue = 3
    /\ added = 5
    /\ ret = <<8>>

\* C2: Counter::init leaves the counter at 0 whatever was stored before, and
\* as long as no call since that init overflowed or underflowed, the counter
\* (and what the view get returns) is #increment - #decrement.
C2_CounterIsIncMinusDec ==
    /\ lastCall = Call("Counter", "init") => counter(counterStorage) = U64Zero
    /\ ~overflowed => counter(counterStorage) = U64Of(nInc - nDec)
    /\ (~overflowed /\ lastCall = Call("Counter", "get"))
          => ret = <<U64Of(nInc - nDec)>>

\* two increments and one decrement, then get returns 1
C2_Witness ==
    /\ lastCall = Call("Counter", "get")
    /\ ~overflowed
    /\ nInc = 2
    /\ nDec = 1
    /\ ret = <<U64Of(1)>>

\* C3: decrement called while the counter is 0 fails and leaves the counter
\* at 0; it never produces the wrapped value 2^64 - 1.
C3_DecrementAtZeroFails ==
    [][(lastCall' = Call("Counter", "decrement")
            /\ counter(counterStorage) = U64Zero)
         => (result' = "fail"
               /\ counter(counterStorage') = U64Zero
               /\ counter(counterStorage') # U64Max)]_vars

\* C4: increment called while the counter is 2^64 - 1 fails and leaves the
\* counter unchanged; it never wraps around to 0.
C4_IncrementAtMaxFails ==
    [][(lastCall' = Call("Counter", "increment")
            /\ counter(counterStorage) = U64Max)
         => (result' = "fail"
               /\ counterStorage' = counterStorage
               /\ counter(counterStorage') # U64Zero)]_vars

\* C5: an upgrade of any of the three contracts leaves every storage as it
\* was, so getSum and get read the same value before and after it.
C5_UpgradeIsNoOp ==
    [][lastCall'.fn = "upgrade"
         => (/\ adderStorage' = adderStorage
             /\ counterStorage' = counterStorage
             /\ emptyStorage' = emptyStorage
             /\ sum(adderStorage') = sum(adderStorage)
             /\ counter(counterStorage') = counter(counterStorage))]_vars

\* an Adder upgrade happened while the sum differed from its initial value
C5_Witness ==
    /\ lastCall = Call("Adder", "upgrade")
    /\ sum(adderStorage) # initialValue
    /\ counter(counterStorage) # U64Zero

\* C6: getSum and get return exactly the stored value and write nothing; two
\* consecutive calls of the same view return the same value.
C6_ViewsAreReadOnly ==
    [][/\ lastCall' = Call("Adder", "getSum")
            => (/\ ret' = <<sum(adderStorage)>>
                /\ adderStorage' = adderStorage
                /\ counterStorage' = counterStorage
                /\ emptyStorage' = emptyStorage)
       /\ lastCall' = Call("Counter", "get")
            => (/\ ret' = <<counter(counterStorage)>>
                /\ adderStorage' = adderStorage
                /\ counterStorage' = counterStorage
                /\ emptyStorage' = emptyStorage)
       /\ (lastCall' = lastCall /\ lastCall.fn \in {"getSum", "get"})
            => ret' = ret]_vars

\* get returned a non-zero counter that is still stored
C6_Witness ==
    /\ lastCall = Call("Counter", "get")
    /\ ret = <<counter(counterStorage)>>
    /\ counter(counterStorage) # U64Zero

\* the keys of a storage other than `key` hold the same values in s and t
SameExcept(s, t, key) ==
    /\ (DOMAIN s) \ {key} = (DOMAIN t) \ {key}
    /\ \A k \in (DOMAIN s) \ {key} : s[k] = t[k]

\* C7: an Adder transaction writes at most the Adder's slot "sum" and a
\* Counter transaction at most the Counter's slot "counter"; neither touches
\* the storage of another contract.
C7_ContractsAreIndependent ==
    [][/\ lastCall'.contract = "Adder"
            => (/\ SameExcept(adderStorage, adderStorage', "sum")
                /\ counterStorage' = counterStorage
                /\ emptyStorage' = emptyStorage)
       /\ lastCall'.contract = "Counter"
            => (/\ SameExcept(counterStorage, counterStorage', "counter")
                /\ adderStorage' = adderStorage
                /\ emptyStorage' = emptyStorage)]_vars

\* a Counter::init ran while the Adder's slot held a non-zero sum
C7_Witness ==
    /\ lastCall = Call("Counter", "init")
    /\ sum(adderStorage) > 0
    /\ nInc = 0

\* C8: the storage of Empty is empty in every reachable state, and init and
\* upgrade are the only operations ever called on it.
C8_EmptyStorageStaysEmpty ==
    /\ DOMAIN emptyStorage = {}
    /\ lastCall.contract = "Empty" => lastCall.fn \in {"init", "upgrade"}

\* Empty was upgraded
C8_Witness ==
    /\ lastCall = Call("Empty", "upgrade")
    /\ DOMAIN emptyStorage = {}

\* C9: of two successive successful Counter mutations, an increment from
\* c < 2^64 - 1 followed by a decrement restores c, and a decrement from
\* c > 0 followed by an increment restores c.
C9_IncrementDecrementInverse ==
    Len(counterHist) = 2 =>
        /\ counterHist[2].after = counter(counterStorage)
        /\ (/\ counterHist[1].fn = "increment"
            /\ counterHist[2].fn = "decrement"
            /\ counterHist[1].before # U64Max)
              => counter(counterStorage) = counterHist[1].before
        /\ (/\ counterHist[1].fn = "decrement"
            /\ counterHist[2].fn = "increment"
            /\ counterHist[1].before # U64Zero)
              => counter(counterStorage) = counterHist[1].before

\* increment from 1 then decrement, back at 1
C9_Witness ==
    /\ Len(counterHist) = 2
    /\ counterHist[1].fn = "increment"
    /\ counterHist[2].fn = "decrement"
    /\ counterHist[1].before = U64Of(1)
    /\ counter(counterStorage) = U64Of(1)
    /\ lastCall = Call("Counter", "decrement")

\* C10: in every reachable state add(a) then add(b) gives the same storage
\* as add(b) then add(a) and as add(a + b), add(0) changes nothing, and no
\* add call decreases the sum.
C10_AddIsOrderIndependent ==
    /\ [](\A a, b \in 0..MaxVal :
            /\ sum_update(sum_update(adderStorage, a), b)
                 = sum_update(sum_update(adderStorage, b), a)
            /\ sum_update(sum_update(adderStorage, a), b)
                 = sum_update(adderStorage, a + b)
            /\ sum_update(adderStorage, 0) = adderStorage
            /\ sum(sum_update(adderStorage, a)) >= sum(adderStorage))
    /\ [][lastCall' = Call("Adder", "add")
            => sum(adderStorage') >= sum(adderStorage)]_vars

\* two add calls with positive values have run since init
C10_Witness ==
    /\ lastCall = Call("Adder", "add")
    /\ added >= 2
    /\ sum(adderStorage) > initialValue

=============================================================================
